---- MODULE Spec2Model ----
(***************************************************************************)
(* Sudoku_Solver.py: a 9x9 board of cells, the per-puzzle setup loop of    *)
(* main(), and the recursive search Board.backtrack_with_min_val with its  *)
(* helpers (forward check, MRV + degree selection, LCV ordering).          *)
(*                                                                         *)
(* Cells are numbered 0..80 in row-major order (cell 9*y + x is            *)
(* board[y][x]).  A clue string is a sequence of one-character strings.    *)
(* The recursion is an explicit stack of frames; one action is one step of *)
(* one invocation.                                                         *)
(***************************************************************************)
EXTENDS Integers, Sequences, FiniteSets, TLC

\* Board.__len__
N == 9

\* ------------------------------------------------------------------------
\* Bounds of the explored inputs
\* ------------------------------------------------------------------------
\* puzzles hide 0, 5, 10, ... 5*MaxLevel of the blanks of the source puzzle
MaxLevel == 10
\* number of cells of AlterOrder at which one symbol may be replaced
MaxAlter == 2

\* ------------------------------------------------------------------------
\* Static tables
\* ------------------------------------------------------------------------
Cells == 0 .. (N * N - 1)

CellSeq == [n \in 1 .. (N * N) |-> n - 1]

\* Board.__init__: the ids "A11" .. "I99", one row of the table per row_k
BoardIds ==
  << << <<"A","1","1">>, <<"A","1","2">>, <<"A","1","3">>, <<"B","1","4">>, <<"B","1","5">>, <<"B","1","6">>, <<"C","1","7">>, <<"C","1","8">>, <<"C","1","9">> >>,
     << <<"A","2","1">>, <<"A","2","2">>, <<"A","2","3">>, <<"B","2","4">>, <<"B","2","5">>, <<"B","2","6">>, <<"C","2","7">>, <<"C","2","8">>, <<"C","2","9">> >>,
     << <<"A","3","1">>, <<"A","3","2">>, <<"A","3","3">>, <<"B","3","4">>, <<"B","3","5">>, <<"B","3","6">>, <<"C","3","7">>, <<"C","3","8">>, <<"C","3","9">> >>,
     << <<"D","4","1">>, <<"D","4","2">>, <<"D","4","3">>, <<"E","4","4">>, <<"E","4","5">>, <<"E","4","6">>, <<"F","4","7">>, <<"F","4","8">>, <<"F","4","9">> >>,
     << <<"D","5","1">>, <<"D","5","2">>, <<"D","5","3">>, <<"E","5","4">>, <<"E","5","5">>, <<"E","5","6">>, <<"F","5","7">>, <<"F","5","8">>, <<"F","5","9">> >>,
     << <<"D","6","1">>, <<"D","6","2">>, <<"D","6","3">>, <<"E","6","4">>, <<"E","6","5">>, <<"E","6","6">>, <<"F","6","7">>, <<"F","6","8">>, <<"F","6","9">> >>,
     << <<"G","7","1">>, <<"G","7","2">>, <<"G","7","3">>, <<"H","7","4">>, <<"H","7","5">>, <<"H","7","6">>, <<"I","7","7">>, <<"I","7","8">>, <<"I","7","9">> >>,
     << <<"G","8","1">>, <<"G","8","2">>, <<"G","8","3">>, <<"H","8","4">>, <<"H","8","5">>, <<"H","8","6">>, <<"I","8","7">>, <<"I","8","8">>, <<"I","8","9">> >>,
     << <<"G","9","1">>, <<"G","9","2">>, <<"G","9","3">>, <<"H","9","4">>, <<"H","9","5">>, <<"H","9","6">>, <<"I","9","7">>, <<"I","9","8">>, <<"I","9","9">> >> >>

\* Board.__getitem__: self[y, x] is board[y][x]
At(y, x) == N * y + x

\* Cell.id of a cell
IdOf == [c \in Cells |-> BoardIds[(c \div N) + 1][(c % N) + 1]]

DigitChars == {"0", "1", "2", "3", "4", "5", "6", "7", "8", "9"}

\* int(c) of a one-character string; defined on the decimal digits only
IntOf(c) ==
  CASE c = "0" -> 0 [] c = "1" -> 1 [] c = "2" -> 2 [] c = "3" -> 3
    [] c = "4" -> 4 [] c = "5" -> 5 [] c = "6" -> 6 [] c = "7" -> 7
    [] c = "8" -> 8 [] c = "9" -> 9

\* main: the evil puzzle '6.....2...9...1..5..8.3..4......2..15..6..9....'
\*       '7.9.....7...3..2...4..5....6.7..8.'
Evil8 ==
  << "6", ".", ".", ".", ".", ".", "2", ".", ".", ".", "9", ".", ".", ".", "1", ".", ".", "5", ".", ".", "8", ".", "3", ".", ".", "4", ".",
     ".", ".", ".", ".", ".", "2", ".", ".", "1", "5", ".", ".", "6", ".", ".", "9", ".", ".", ".", ".", "7", ".", "9", ".", ".", ".", ".",
     ".", "7", ".", ".", ".", "3", ".", ".", "2", ".", ".", ".", "4", ".", ".", "5", ".", ".", ".", ".", "6", ".", "7", ".", ".", "8", "." >>

\* the completed grid of Evil8
Solved8 ==
  << "6", "5", "3", "7", "4", "9", "2", "1", "8", "7", "9", "4", "8", "2", "1", "6", "3", "5", "1", "2", "8", "5", "3", "6", "7", "4", "9",
     "4", "6", "9", "3", "5", "2", "8", "7", "1", "5", "3", "1", "6", "8", "7", "9", "2", "4", "2", "8", "7", "1", "9", "4", "3", "5", "6",
     "8", "7", "5", "9", "1", "3", "4", "6", "2", "3", "1", "2", "4", "6", "8", "5", "9", "7", "9", "4", "6", "2", "7", "5", "1", "8", "3" >>

\* ------------------------------------------------------------------------
\* Input clue strings
\* ------------------------------------------------------------------------
\* the blank cells of Evil8 in row-major order
EvilBlanks == SelectSeq(CellSeq, LAMBDA c : Evil8[c + 1] = ".")

\* Solved8 with the last m blanks of Evil8 hidden again
Hidden(m) ==
  LET n  == Len(EvilBlanks)
      mm == IF m > n THEN n ELSE m
      hs == {EvilBlanks[x] : x \in (n - mm + 1) .. n}
  IN  [p \in 1 .. (N * N) |-> IF (p - 1) \in hs THEN "." ELSE Solved8[p]]

\* the cells at which a symbol may be replaced
AlterOrder == << 28, 80, 63, 40, 0 >>

AlterCells == {AlterOrder[a] : a \in 1 .. (IF MaxAlter > Len(AlterOrder) THEN Len(AlterOrder) ELSE MaxAlter)}

\* the symbols a replaced cell may get
AlterDigits == {"3", "4", "7"}

\* well-formed clue strings: a hidden level, at most one symbol replaced
WellFormed ==
  LET bases == {Hidden(5 * l) : l \in 0 .. MaxLevel}
  IN  bases \cup {[b EXCEPT ![c + 1] = d] : b \in bases, c \in AlterCells, d \in AlterDigits}

\* strings that are not 81 symbols of '.', '1'..'9'
Malformed ==
  { SubSeq(Solved8, 1, 80),
    Append(Solved8, "5"),
    Append(Solved8, "."),
    [Solved8 EXCEPT ![81] = "0"],
    [Solved8 EXCEPT ![41] = "x"] }

Puzzles == WellFormed \cup Malformed

\* the cells whose clue a sparse clue string keeps: none, the first row, the
\* first two rows, the main diagonal
SparseKeeps == { {}, 0 .. 8, 0 .. 17, {10 * d : d \in 0 .. 8} }

\* sparse clue strings: Solved8 with only the kept cells clued, the rest '.'
Sparse ==
  {[p \in 1 .. (N * N) |-> IF (p - 1) \in keep THEN Solved8[p] ELSE "."] : keep \in SparseKeeps}

\* ------------------------------------------------------------------------
\* State
\* ------------------------------------------------------------------------
VARIABLES
  str_board,       \* the clue string of this puzzle (puzzle in main)
  cur_val,         \* Cell.cur_val of every cell
  values,          \* Cell.values of every cell (a list)
  neighbors,       \* Cell.neighbors of every cell (a list of cells)
  assigned_neigh,  \* Cell.assigned_neigh of every cell
  k,               \* number of completed iterations of main's i, j loops
  pc,              \* "main", "call", "loop", "ret", "done", "error"
  stack,           \* frames of the running invocations, outermost first
  retval,          \* value returned by the invocation that just returned
  solved,          \* main's solved (meaningful when pc = "done")
  called           \* the helpers the last step ran

vars == << str_board, cur_val, values, neighbors, assigned_neigh, k, pc,
           stack, retval, solved, called >>

\* ------------------------------------------------------------------------
\* Helpers of the Board
\* ------------------------------------------------------------------------
\* Cell.__init__: values = list(range(1, 10))
FullDomain == [v \in 1 .. 9 |-> v]

\* list(all_poss): the members of a set of small integers, in the order
\* CPython iterates them (ascending)
ListOfSet(S) == SelectSeq(FullDomain, LAMBDA v : v \in S)

RECURSIVE FillRow(_, _, _, _)
\* the loop of fill_initial_board over the symbols of one board row
\* (count = 9 * row + col); ok is FALSE when board[row] (IndexError) or
\* int(c) (ValueError) raises
FillRow(cv, s, row, col) ==
  IF col >= 9 \/ 9 * row + col >= Len(s) THEN [ok |-> TRUE, cur_val |-> cv]
  ELSE LET c == s[9 * row + col + 1]
       IN  IF c # "."
             THEN IF row >= N \/ c \notin DigitChars
                    THEN [ok |-> FALSE, cur_val |-> cv]
                    ELSE FillRow([cv EXCEPT ![At(row, col)] = IntOf(c)], s, row, col + 1)
             ELSE FillRow(cv, s, row, col + 1)

RECURSIVE FillFrom(_, _, _)
\* the loop of fill_initial_board from the symbols of row on
FillFrom(cv, s, row) ==
  IF 9 * row >= Len(s) THEN [ok |-> TRUE, cur_val |-> cv]
  ELSE LET r == FillRow(cv, s, row, 0)
       IN  IF r.ok THEN FillFrom(r.cur_val, s, row + 1) ELSE r

\* Board.fill_initial_board
FillInitialBoard(cv, s) == FillFrom(cv, s, 0)

\* find_neighbors without the test for the same box
FindNeighborsNoBox(box, row, col, cv) ==
  LET nb == SelectSeq(CellSeq, LAMBDA c :
               /\ ~(IdOf[c][2] = row /\ IdOf[c][3] = col)
               /\ (IdOf[c][2] = row \/ IdOf[c][3] = col))
  IN  [neighbors |-> nb,
       assigned  |-> Len(SelectSeq(nb, LAMBDA c : cv[c] # 0)),
       cell      |-> At(IntOf(row) - 1, IntOf(col) - 1)]

\* find_neighbors without the test that excludes the cell itself
FindNeighborsWithSelf(box, row, col, cv) ==
  LET nb == SelectSeq(CellSeq, LAMBDA c :
               IdOf[c][1] = box \/ IdOf[c][2] = row \/ IdOf[c][3] = col)
  IN  [neighbors |-> nb,
       assigned  |-> Len(SelectSeq(nb, LAMBDA c : cv[c] # 0)),
       cell      |-> At(IntOf(row) - 1, IntOf(col) - 1)]

\* Board.find_neighbors(box, row, col) on a board with values cv
FindNeighbors(box, row, col, cv) ==
  LET nb == SelectSeq(CellSeq, LAMBDA c :
               /\ ~(IdOf[c][2] = row /\ IdOf[c][3] = col)
               /\ (IdOf[c][1] = box \/ IdOf[c][2] = row \/ IdOf[c][3] = col))
  IN  [neighbors |-> nb,
       assigned  |-> Len(SelectSeq(nb, LAMBDA c : cv[c] # 0)),
       cell      |-> At(IntOf(row) - 1, IntOf(col) - 1)]

\* F applied to the value of x: one pass of a loop hands its result to the
\* next pass
Then(x, F(_)) == CHOOSE r \in {F(v) : v \in {x}} : TRUE

RECURSIVE RemoveUsedButLast(_, _, _, _)
\* the loop stops one neighbour early
RemoveUsedButLast(nb, n, all_poss, cv) ==
  IF n >= Len(nb) THEN all_poss
  ELSE Then(IF cv[nb[n]] # 0 /\ cv[nb[n]] \in all_poss
              THEN all_poss \ {cv[nb[n]]}
              ELSE all_poss,
            LAMBDA rest : RemoveUsedButLast(nb, n + 1, rest, cv))

RECURSIVE RemoveUsed(_, _, _, _)
\* the loop of initial_values over the neighbours from position n on
\* (val = neighbor.cur_val is cv[nb[n]])
RemoveUsed(nb, n, all_poss, cv) ==
  IF n > Len(nb) THEN all_poss
  ELSE Then(IF cv[nb[n]] # 0 /\ cv[nb[n]] \in all_poss
              THEN all_poss \ {cv[nb[n]]}
              ELSE all_poss,
            LAMBDA rest : RemoveUsed(nb, n + 1, rest, cv))

\* Board.initial_values(neighbors, cell): the new cell.values
InitialValues(nb, cv) == ListOfSet(RemoveUsed(nb, 1, 1 .. 9, cv))

\* Board.board_is_solved
BoardIsSolved(cv) == \A c \in Cells : cv[c] # 0

\* find_less_poss: min_cell = None
NoCell == -1

\* the tie-break prefers the cell with fewer assigned neighbours
DegreeFewest(min_cell, other_cell, an) ==
  IF an[other_cell] < an[min_cell] THEN other_cell ELSE min_cell

\* Board.degree(min_cell, other_cell), an the assigned_neigh of the cells
Degree(min_cell, other_cell, an) ==
  IF an[other_cell] > an[min_cell] THEN other_cell ELSE min_cell

\* a scan that also takes assigned cells
IsUnassignedAny(cell, cv) == cv[cell] \in 0 .. 9

\* find_less_poss: only unassigned cells are considered
IsUnassigned(cell, cv) == cv[cell] = 0

\* the scan keeps the cell of the largest domain
ScanCellLargest(st, cell, cv, nbs, an) ==
  IF IsUnassigned(cell, cv)
    THEN Then(InitialValues(nbs[cell], cv), LAMBDA dom :
           LET vals        == [st.values EXCEPT ![cell] = dom]
               current_len == Len(dom)
           IN  IF st.min_cell = NoCell \/ current_len > st.min_len
                 THEN [min_len |-> current_len, min_cell |-> cell, values |-> vals]
                 ELSE IF current_len = st.min_len
                        THEN LET m == Degree(st.min_cell, cell, an)
                             IN  [min_len |-> Len(vals[m]), min_cell |-> m, values |-> vals]
                        ELSE [st EXCEPT !.values = vals])
    ELSE st

\* the scan takes the stored domain of the cell as it is
ScanCellStored(st, cell, cv, nbs, an) ==
  IF IsUnassigned(cell, cv)
    THEN Then(st.values[cell], LAMBDA dom :
           LET vals        == [st.values EXCEPT ![cell] = dom]
               current_len == Len(dom)
           IN  IF st.min_cell = NoCell \/ current_len < st.min_len
                 THEN [min_len |-> current_len, min_cell |-> cell, values |-> vals]
                 ELSE IF current_len = st.min_len
                        THEN LET m == Degree(st.min_cell, cell, an)
                             IN  [min_len |-> Len(vals[m]), min_cell |-> m, values |-> vals]
                        ELSE [st EXCEPT !.values = vals])
    ELSE st

\* the body of the loops of find_less_poss for one cell; st holds min_len,
\* min_cell and the cell.values of all cells as refreshed so far
ScanCell(st, cell, cv, nbs, an) ==
  IF IsUnassigned(cell, cv)
    THEN Then(InitialValues(nbs[cell], cv), LAMBDA dom :
           LET vals        == [st.values EXCEPT ![cell] = dom]
               current_len == Len(dom)
           IN  IF st.min_cell = NoCell \/ current_len < st.min_len
                 THEN [min_len |-> current_len, min_cell |-> cell, values |-> vals]
                 ELSE IF current_len = st.min_len
                        THEN LET m == Degree(st.min_cell, cell, an)
                             IN  [min_len |-> Len(vals[m]), min_cell |-> m, values |-> vals]
                        ELSE [st EXCEPT !.values = vals])
    ELSE st

RECURSIVE ScanRow(_, _, _, _, _, _)
\* the inner loop (over j) of find_less_poss for row i
ScanRow(st, i, j, cv, nbs, an) ==
  IF j >= N THEN st
  ELSE Then(ScanCell(st, At(i, j), cv, nbs, an),
            LAMBDA st2 : ScanRow(st2, i, j + 1, cv, nbs, an))

RECURSIVE ScanRows(_, _, _, _, _)
\* the outer loop (over i) of find_less_poss
ScanRows(st, i, cv, nbs, an) ==
  IF i >= N THEN st
  ELSE Then(ScanRow(st, i, 0, cv, nbs, an),
            LAMBDA st2 : ScanRows(st2, i + 1, cv, nbs, an))

\* Board.find_less_poss: the selected cell (NoCell for None) and the
\* cell.values it leaves behind
FindLessPoss(cv, vals, nbs, an) ==
  ScanRows([min_len |-> 10, min_cell |-> NoCell, values |-> vals], 0, cv, nbs, an)

\* is_allowed(cell, value)
IsAllowed(cell, value, cv, nbs) ==
  \A x \in 1 .. Len(nbs[cell]) : cv[nbs[cell][x]] # value

\* least_constr_val: constraints_imposed of one value
ConstraintsImposed(value, cell, cv, vals, nbs) ==
  Len(SelectSeq(nbs[cell], LAMBDA n :
        cv[n] = 0 /\ \E x \in 1 .. Len(vals[n]) : vals[n][x] = value))

\* a sort that puts an item in front of the items of equal score
InsertByScoreFront(sorted, item) ==
  LET pos == Len(SelectSeq(sorted, LAMBDA e : e[2] < item[2]))
  IN  SubSeq(sorted, 1, pos) \o << item >> \o SubSeq(sorted, pos + 1, Len(sorted))

\* list.sort(key=score) is stable: an item goes behind every item whose
\* score is not larger
InsertByScore(sorted, item) ==
  LET pos == Len(SelectSeq(sorted, LAMBDA e : e[2] <= item[2]))
  IN  SubSeq(sorted, 1, pos) \o << item >> \o SubSeq(sorted, pos + 1, Len(sorted))

RECURSIVE SortByScore(_, _, _)
SortByScore(items, n, sorted) ==
  IF n > Len(items) THEN sorted
  ELSE Then(InsertByScore(sorted, items[n]),
            LAMBDA sorted2 : SortByScore(items, n + 1, sorted2))

\* least_constr_val(cell)
LeastConstrVal(cell, cv, vals, nbs) ==
  LET value_scores == [x \in 1 .. Len(vals[cell]) |->
                         << vals[cell][x], ConstraintsImposed(vals[cell][x], cell, cv, vals, nbs) >>]
      ordered      == SortByScore(value_scores, 1, << >>)
  IN  [x \in 1 .. Len(ordered) |-> ordered[x][1]]

\* ------------------------------------------------------------------------
\* Initial state: main has constructed Board() for one puzzle
\* ------------------------------------------------------------------------
Init ==
  /\ str_board \in Puzzles
  /\ cur_val = [c \in Cells |-> 0]
  /\ values = [c \in Cells |-> FullDomain]
  /\ neighbors = [c \in Cells |-> << >>]
  /\ assigned_neigh = [c \in Cells |-> 0]
  /\ k = 0
  /\ pc = "main"
  /\ stack = << >>
  /\ retval = FALSE
  /\ solved = FALSE
  /\ called = {}

\* ------------------------------------------------------------------------
\* main: one iteration of the setup loops (find_neighbors,
\* fill_initial_board, initial_values for cell k)
\* ------------------------------------------------------------------------
MainIter ==
  /\ pc = "main"
  /\ k < N * N
  /\ LET cell   == At(k \div N, k % N)
         fn     == FindNeighbors(IdOf[cell][1], IdOf[cell][2], IdOf[cell][3], cur_val)
         filled == FillInitialBoard(cur_val, str_board)
     IN  /\ neighbors' = [neighbors EXCEPT ![fn.cell] = fn.neighbors]
         /\ assigned_neigh' = [assigned_neigh EXCEPT ![fn.cell] = fn.assigned]
         /\ cur_val' = filled.cur_val
         /\ IF filled.ok
              THEN /\ values' = [values EXCEPT ![cell] = InitialValues(fn.neighbors, filled.cur_val)]
                   /\ k' = k + 1
                   /\ pc' = "main"
                   /\ called' = {"find_neighbors", "fill_initial_board", "initial_values"}
              ELSE /\ pc' = "error"
                   /\ called' = {"find_neighbors", "fill_initial_board"}
                   /\ UNCHANGED << values, k >>
  /\ UNCHANGED << str_board, stack, retval, solved >>

\* main: solved = solve_back(filled_board), which enters the search
SolveBack ==
  /\ pc = "main"
  /\ k = N * N
  /\ pc' = "call"
  /\ called' = {"solve_back"}
  /\ UNCHANGED << str_board, cur_val, values, neighbors, assigned_neigh, k,
                  stack, retval, solved >>

\* ------------------------------------------------------------------------
\* Board.backtrack_with_min_val, one step of one invocation per action
\* ------------------------------------------------------------------------
Top == stack[Len(stack)]

Pop == SubSeq(stack, 1, Len(stack) - 1)

\* entry with no unassigned cell: the cell is selected before the test
BaseCaseAfterSelect ==
  /\ pc = "call"
  /\ BoardIsSolved(cur_val)
  /\ retval' = TRUE
  /\ pc' = "ret"
  /\ called' = {"find_less_poss", "board_is_solved"}
  /\ UNCHANGED << str_board, cur_val, values, neighbors, assigned_neigh, k,
                  stack, solved >>

\* entry with no unassigned cell: return True
BaseCase ==
  /\ pc = "call"
  /\ BoardIsSolved(cur_val)
  /\ retval' = TRUE
  /\ pc' = "ret"
  /\ called' = {"board_is_solved"}
  /\ UNCHANGED << str_board, cur_val, values, neighbors, assigned_neigh, k,
                  stack, solved >>

\* entry with an unassigned cell: select the cell, refresh its domain,
\* return False when it is empty, else order the values and start the loop
Descend ==
  /\ pc = "call"
  /\ ~BoardIsSolved(cur_val)
  /\ \E flp \in {FindLessPoss(cur_val, values, neighbors, assigned_neigh)} :
     \E vals \in {[flp.values EXCEPT ![flp.min_cell] =
                     InitialValues(neighbors[flp.min_cell], cur_val)]} :
       LET min_cell == flp.min_cell
       IN  /\ values' = vals
           /\ IF vals[min_cell] = << >>
                THEN /\ retval' = FALSE
                     /\ pc' = "ret"
                     /\ called' = {"board_is_solved", "find_less_poss", "initial_values"}
                     /\ UNCHANGED stack
                ELSE /\ \E ordered_values \in
                            {IF Len(vals[min_cell]) > 1
                               THEN LeastConstrVal(min_cell, cur_val, vals, neighbors)
                               ELSE vals[min_cell]} :
                          stack' = Append(stack,
                            [min_cell       |-> min_cell,
                             ordered_values |-> ordered_values,
                             pos            |-> 1,
                             entry          |-> cur_val])
                     /\ pc' = "loop"
                     /\ called' = {"board_is_solved", "find_less_poss", "initial_values"}
                                    \cup (IF Len(vals[min_cell]) > 1 THEN {"least_constr_val"} ELSE {})
                     /\ UNCHANGED retval
  /\ UNCHANGED << str_board, cur_val, neighbors, assigned_neigh, k, solved >>

\* the loop body recurses without the assignment
TryValueNoAssign ==
  /\ pc = "loop"
  /\ Top.pos <= Len(Top.ordered_values)
  /\ LET i == Top.ordered_values[Top.pos]
     IN  IF IsAllowed(Top.min_cell, i, cur_val, neighbors)
           THEN /\ pc' = "call"
                /\ called' = {"is_allowed"}
                /\ UNCHANGED << stack, cur_val >>
           ELSE /\ stack' = [stack EXCEPT ![Len(stack)].pos = @ + 1]
                /\ called' = {"is_allowed"}
                /\ UNCHANGED << cur_val, pc >>
  /\ UNCHANGED << str_board, values, neighbors, assigned_neigh, k, retval, solved >>

\* the loop body for the next ordered value: assign it and recurse when
\* is_allowed, else go on to the following value
TryValue ==
  /\ pc = "loop"
  /\ Top.pos <= Len(Top.ordered_values)
  /\ LET i == Top.ordered_values[Top.pos]
     IN  IF IsAllowed(Top.min_cell, i, cur_val, neighbors)
           THEN /\ cur_val' = [cur_val EXCEPT ![Top.min_cell] = i]
                /\ pc' = "call"
                /\ called' = {"is_allowed", "set_current"}
                /\ UNCHANGED stack
           ELSE /\ stack' = [stack EXCEPT ![Len(stack)].pos = @ + 1]
                /\ called' = {"is_allowed"}
                /\ UNCHANGED << cur_val, pc >>
  /\ UNCHANGED << str_board, values, neighbors, assigned_neigh, k, retval, solved >>

\* the loop is over: return False and leave the cell as it is
ExhaustedNoReset ==
  /\ pc = "loop"
  /\ Top.pos > Len(Top.ordered_values)
  /\ stack' = Pop
  /\ retval' = FALSE
  /\ pc' = "ret"
  /\ called' = {}
  /\ UNCHANGED << str_board, cur_val, values, neighbors, assigned_neigh, k, solved >>

\* the loop is over: un-assign the cell and return False
Exhausted ==
  /\ pc = "loop"
  /\ Top.pos > Len(Top.ordered_values)
  /\ cur_val' = [cur_val EXCEPT ![Top.min_cell] = 0]
  /\ stack' = Pop
  /\ retval' = FALSE
  /\ pc' = "ret"
  /\ called' = {"set_current"}
  /\ UNCHANGED << str_board, values, neighbors, assigned_neigh, k, solved >>

\* the recursive call returned True: un-assign the cell, then return sol
PropagateSuccessUndo ==
  /\ pc = "ret"
  /\ stack # << >>
  /\ retval
  /\ cur_val' = [cur_val EXCEPT ![Top.min_cell] = 0]
  /\ stack' = Pop
  /\ called' = {"set_current"}
  /\ UNCHANGED << str_board, values, neighbors, assigned_neigh, k,
                  pc, retval, solved >>

\* the recursive call returned True: return sol
PropagateSuccess ==
  /\ pc = "ret"
  /\ stack # << >>
  /\ retval
  /\ stack' = Pop
  /\ called' = {}
  /\ UNCHANGED << str_board, cur_val, values, neighbors, assigned_neigh, k,
                  pc, retval, solved >>

\* the result of the recursive call is returned whatever it is
NextCandidateReturnsSol ==
  /\ pc = "ret"
  /\ stack # << >>
  /\ ~retval
  /\ stack' = Pop
  /\ called' = {}
  /\ UNCHANGED << str_board, cur_val, values, neighbors, assigned_neigh, k,
                  pc, retval, solved >>

\* the same ordered value is tried again
NextCandidateSameValue ==
  /\ pc = "ret"
  /\ stack # << >>
  /\ ~retval
  /\ pc' = "loop"
  /\ called' = {}
  /\ UNCHANGED << str_board, cur_val, values, neighbors, assigned_neigh, k,
                  stack, retval, solved >>

\* the recursive call returned False: on to the next ordered value
NextCandidate ==
  /\ pc = "ret"
  /\ stack # << >>
  /\ ~retval
  /\ stack' = [stack EXCEPT ![Len(stack)].pos = @ + 1]
  /\ pc' = "loop"
  /\ called' = {}
  /\ UNCHANGED << str_board, cur_val, values, neighbors, assigned_neigh, k,
                  retval, solved >>

\* the outermost invocation returned to solve_back and main
Finish ==
  /\ pc = "ret"
  /\ stack = << >>
  /\ solved' = retval
  /\ pc' = "done"
  /\ called' = {}
  /\ UNCHANGED << str_board, cur_val, values, neighbors, assigned_neigh, k,
                  stack, retval >>

Next ==
  \/ MainIter
  \/ SolveBack
  \/ BaseCase
  \/ Descend
  \/ TryValue
  \/ Exhausted
  \/ PropagateSuccess
  \/ NextCandidate
  \/ Finish

Spec == Init /\ [][Next]_vars

\* main on the wider family of clue strings that also has the sparse ones
\* and the evil puzzle itself
WideInit ==
  /\ str_board \in Puzzles \cup Sparse \cup {Evil8}
  /\ cur_val = [c \in Cells |-> 0]
  /\ values = [c \in Cells |-> FullDomain]
  /\ neighbors = [c \in Cells |-> << >>]
  /\ assigned_neigh = [c \in Cells |-> 0]
  /\ k = 0
  /\ pc = "main"
  /\ stack = << >>
  /\ retval = FALSE
  /\ solved = FALSE
  /\ called = {}

WideSpec == WideInit /\ [][Next]_vars

\* the steps of the search
Search ==
  \/ BaseCase
  \/ Descend
  \/ TryValue
  \/ Exhausted
  \/ PropagateSuccess
  \/ NextCandidate
  \/ Finish

\* the search is one synchronous call: once entered, it keeps running
FairSpec == Spec /\ WF_vars(Search)

\* ------------------------------------------------------------------------
\* Properties
\* ------------------------------------------------------------------------
\* the cells that received a clue (a symbol '1'..'9') from fill_initial_board
ClueCells ==
  {c \in Cells : c < Len(str_board) /\ str_board[c + 1] \in (DigitChars \ {"0"})}

ClueValue(c) == IntOf(str_board[c + 1])

\* the search has been entered
InSearch == pc \in {"call", "loop", "ret", "done"}

\* rows, columns and boxes by position, independently of the cell ids
RowOf(c) == c \div 9

ColOf(c) == c % 9

BoxOf(c) == 3 * (c \div 27) + ((c % 9) \div 3)

Units ==
  {{c \in Cells : RowOf(c) = u} : u \in 0 .. 8}
    \cup {{c \in Cells : ColOf(c) = u} : u \in 0 .. 8}
    \cup {{c \in Cells : BoxOf(c) = u} : u \in 0 .. 8}

\* the other cells of the row, column and box of a cell
PeersOf ==
  [c \in Cells |->
     {d \in Cells \ {c} : RowOf(d) = RowOf(c) \/ ColOf(d) = ColOf(c) \/ BoxOf(d) = BoxOf(c)}]

\* every row, column and box holds each of 1..9 exactly once
ValidGrid(cv) ==
  \A u \in Units : \A v \in 1 .. 9 : Cardinality({c \in u : cv[c] = v}) = 1

\* the board that holds the clues and nothing else (f @@ f is f as an
\* explicit function)
ClueBoard ==
  LET f == [c \in Cells |-> IF c \in ClueCells THEN ClueValue(c) ELSE 0]
  IN  f @@ f

\* no two neighbouring clues hold the same value
CluesConsistent ==
  \A c \in ClueCells : \A d \in PeersOf[c] \cap ClueCells : ClueValue(c) # ClueValue(d)

\* the same digit is a clue of two cells of one row
HasRowDuplicate ==
  \E c \in ClueCells : \E d \in ClueCells \ {c} :
     RowOf(c) = RowOf(d) /\ ClueValue(c) = ClueValue(d)

\* the values that differ from every peer of cell c on board b
FreeValues(b, c) == {w \in 1 .. 9 : \A d \in PeersOf[c] : b[d] # w}

RECURSIVE RowFillings(_, _, _)
\* the boards that extend board by values for the blank cells of row r from
\* column j on, each value differing from every peer already on the board
RowFillings(board, r, j) ==
  IF j >= 9 THEN {board}
  ELSE IF board[9 * r + j] # 0 THEN RowFillings(board, r, j + 1)
  ELSE UNION {RowFillings([board EXCEPT ![9 * r + j] = v], r, j + 1) :
                v \in FreeValues(board, 9 * r + j)}

RECURSIVE CompletableFrom(_, _)
\* some assignment of 1..9 to the blank cells of rows r.. makes a valid grid
CompletableFrom(board, r) ==
  IF r >= 9 THEN ValidGrid(board)
  ELSE \E filled \in RowFillings(board, r, 0) : CompletableFrom(filled, r + 1)

\* the clues have a completion that satisfies every row, column and box
Completable == CompletableFrom(ClueBoard, 0)

\* C1: whenever the search returns success the final board has every row,
\* column and box containing each of 1..9 exactly once
C1_SuccessIsValidGrid ==
  (pc = "done" /\ solved) => ValidGrid(cur_val)

\* C2: a clue string with the same digit twice in one row is never reported
\* as solved
C2_RowDuplicateFails ==
  (pc = "done" /\ HasRowDuplicate) => ~solved

\* C3: with no two neighbouring clues equal, the search reports success
\* exactly when the clues have a completion
C3_Completeness ==
  (pc = "done" /\ CluesConsistent) => (solved <=> Completable)

\* the search has failed on consistent clues that leave many cells blank
C3_Witness ==
  /\ pc = "done"
  /\ ~solved
  /\ CluesConsistent
  /\ Cardinality(ClueCells) < 40

\* C4: during and after the search every clued cell holds its clue, and no
\* invocation has a clued cell as its selected cell
C4_CluePreservation ==
  InSearch =>
    /\ \A c \in ClueCells : cur_val[c] = ClueValue(c)
    /\ \A n \in 1 .. Len(stack) : stack[n].min_cell \notin ClueCells

\* a nested invocation has just undone its cell on a board with clues
C4_Witness ==
  /\ pc = "ret"
  /\ ~retval
  /\ Len(stack) >= 2
  /\ called = {"set_current"}
  /\ ClueCells # {}

\* C5: once solve_back has entered the search, the search ends and main
\* holds its result, True or False
C5_Termination ==
  (pc = "call" /\ stack = << >>) ~> (pc = "done" /\ solved \in BOOLEAN)

\* the search on a board with conflicting clues and many blanks has ended
C5_Witness ==
  /\ pc = "done"
  /\ ~CluesConsistent
  /\ Cardinality(ClueCells) < 40

\* the board as it was when the invocation that is about to return was entered
EntryBoard == IF pc = "loop" THEN Top.entry ELSE cur_val

\* C6: an invocation that returns failure leaves every cell as it was at
\* its entry, and after a top-level failure every non-clue cell is 0
C6_UndoOnFailure ==
  /\ [][(pc # "ret" /\ pc' = "ret" /\ ~retval') => cur_val' = EntryBoard]_vars
  /\ []((pc = "done" /\ ~solved) => \A c \in Cells \ ClueCells : cur_val[c] = 0)

\* a nested invocation has run out of values and returned failure
C6_Witness ==
  /\ pc = "ret"
  /\ ~retval
  /\ called = {"set_current"}
  /\ Len(stack) >= 1
  /\ cur_val[Top.min_cell] # 0

\* the helpers that select a cell, forward-check or write a cell
SearchSteps == {"find_less_poss", "initial_values", "least_constr_val", "is_allowed", "set_current"}

\* C8: an invocation entered with no unassigned cell returns success at
\* once: no selection, no forward check, no cell value or domain changes
C8_AlreadySolved ==
  [][(pc = "call" /\ BoardIsSolved(cur_val)) =>
       /\ pc' = "ret"
       /\ retval'
       /\ cur_val' = cur_val
       /\ values' = values
       /\ stack' = stack
       /\ called' \cap SearchSteps = {}]_vars

\* the outermost invocation found every cell clued and has returned success
C8_Witness ==
  /\ pc = "ret"
  /\ retval
  /\ stack = << >>
  /\ called = {"board_is_solved"}
  /\ ClueCells = Cells

\* the members of a list
Range(seq) == {seq[x] : x \in 1 .. Len(seq)}

\* the cells whose domain the last step recomputed with initial_values
Refreshed ==
  IF "initial_values" \notin called THEN {}
  ELSE IF pc = "main" THEN {At((k - 1) \div N, (k - 1) % N)}
  ELSE {c \in Cells : cur_val[c] = 0}

\* C9: the domain initial_values stores is, as a set, 1..9 minus the
\* nonzero values its neighbours hold
C9_ForwardCheck ==
  \A c \in Refreshed :
     /\ Range(values[c]) = (1 .. 9) \ {cur_val[d] : d \in Range(neighbors[c])}
     /\ Len(values[c]) = Cardinality(Range(values[c]))

\* a nested invocation has recomputed a domain that is not the full one
C9_Witness ==
  /\ pc = "loop"
  /\ Len(stack) >= 2
  /\ \E c \in Refreshed : values[c] # FullDomain /\ values[c] # << >>

\* C10: once an invocation has returned success no cell value changes,
\* every enclosing invocation returns success in turn, and at the top-level
\* return no cell is 0
C10_SuccessPropagation ==
  /\ [][(pc = "ret" /\ retval) =>
          /\ cur_val' = cur_val
          /\ retval'
          /\ IF stack # << >>
               THEN pc' = "ret" /\ stack' = Pop
               ELSE pc' = "done" /\ solved' /\ stack' = stack]_vars
  /\ []((pc = "done" /\ solved) => BoardIsSolved(cur_val))

\* success is on its way up through the enclosing invocations
C10_Witness ==
  /\ pc = "ret"
  /\ retval
  /\ called = {}
  /\ Len(stack) >= 2

\* a clue string is 81 symbols drawn from '.', '1' .. '9'
ValidClueString(s) ==
  /\ Len(s) = N * N
  /\ \A p \in 1 .. Len(s) : s[p] \in ({"."} \cup (DigitChars \ {"0"}))

\* C11: a clue string that is not 81 symbols of '.', '1'..'9' is reported as
\* an error by the first fill_initial_board; no setup iteration completes
\* and no search step runs on it
C11_MalformedRejected ==
  ~ValidClueString(str_board) => (pc \in {"main", "error"} /\ k = 0)

\* C12: once find_neighbors has run for all 81 cells, every neighbour list
\* has 20 distinct members, not the cell itself, exactly the other cells of
\* its row, column and box, and the relation is symmetric
C12_ConstraintGraph ==
  k = N * N =>
    \A c \in Cells :
       /\ Len(neighbors[c]) = 20
       /\ Cardinality(Range(neighbors[c])) = 20
       /\ c \notin Range(neighbors[c])
       /\ Range(neighbors[c]) = PeersOf[c]
       /\ \A d \in Cells : d \in Range(neighbors[c]) <=> c \in Range(neighbors[d])

\* the last setup iteration has just linked the last cell
C12_Witness ==
  /\ pc = "main"
  /\ k = N * N
  /\ "find_neighbors" \in called
  /\ neighbors[N * N - 1] # << >>

\* the number of invocations that enclose the running (or just returned) one
Depth == IF pc = "loop" THEN Len(stack) - 1 ELSE Len(stack)

\* the non-clue cells that hold a value
SearchAssigned == {c \in Cells \ ClueCells : cur_val[c] # 0}

\* C13: the enclosing invocations have pairwise different selected cells,
\* each a non-clue cell that holds a value, so the nesting depth is the
\* number of cells they have assigned and at most the number of initially
\* unassigned cells; when an invocation is entered these are all the
\* assigned non-clue cells
C13_DepthBound ==
  pc \in {"call", "loop", "ret"} =>
    /\ Cardinality({stack[n].min_cell : n \in 1 .. Depth} \cap SearchAssigned) = Depth
    /\ Depth <= Cardinality(Cells \ ClueCells)
    /\ (pc = "call" => Cardinality(SearchAssigned) = Len(stack))

\* an invocation is entered below more than thirty enclosing ones
C13_Witness ==
  /\ pc = "call"
  /\ Len(stack) > 30
  /\ Cardinality(SearchAssigned) > 30

\* the unassigned cells
Unassigned == {c \in Cells : cur_val[c] = 0}

\* the number of values of 1..9 that no peer of cell c holds
FreshSize(c) == Cardinality(FreeValues(cur_val, c))

\* the least fresh domain size of an unassigned cell
MinSize ==
  CHOOSE m \in 0 .. 9 :
    /\ \E c \in Unassigned : FreshSize(c) = m
    /\ \A c \in Unassigned : FreshSize(c) >= m

\* the unassigned cells of minimal fresh domain size
MinSizeCells == LET m == MinSize IN {c \in Unassigned : FreshSize(c) = m}

\* among them, the cells of largest assigned_neigh snapshot
BestCells ==
  LET ms  == MinSizeCells
      top == CHOOSE a \in {assigned_neigh[c] : c \in ms} : \A c \in ms : assigned_neigh[c] <= a
  IN  {c \in ms : assigned_neigh[c] = top}

\* the earliest of those in row-major order; NoCell when no cell is unassigned
ExpectedCell ==
  IF Unassigned = {} THEN NoCell
  ELSE LET bs == BestCells IN CHOOSE c \in bs : \A d \in bs : c <= d

Score(v, cell) ==
  Cardinality({n \in PeersOf[cell] : cur_val[n] = 0 /\ v \in Range(values[n])})

\* the position of v in a list without repetition
PosIn(seq, v) == CHOOSE x \in 1 .. Len(seq) : seq[x] = v

\* C15: the list least_constr_val returns is a permutation of the cell's
\* domain, ascending by score, values of equal score in domain order
C15_ValueOrdering ==
  (pc = "loop" /\ "least_constr_val" \in called) =>
    LET cell == Top.min_cell
        dom  == values[cell]
        ord  == Top.ordered_values
    IN  /\ Len(ord) = Len(dom)
        /\ Range(ord) = Range(dom)
        /\ Cardinality(Range(ord)) = Len(ord)
        /\ \A x \in 1 .. Len(ord) : \A y \in 1 .. Len(ord) :
             x < y =>
               /\ Score(ord[x], cell) <= Score(ord[y], cell)
               /\ Score(ord[x], cell) = Score(ord[y], cell)
                    => PosIn(dom, ord[x]) < PosIn(dom, ord[y])

\* least_constr_val has reordered a domain of four or more values, two of
\* them of equal score
C15_Witness ==
  /\ pc = "loop"
  /\ "least_constr_val" \in called
  /\ Len(Top.ordered_values) >= 4
  /\ Top.ordered_values # values[Top.min_cell]
  /\ \E v \in Range(Top.ordered_values) : \E w \in Range(Top.ordered_values) \ {v} :
       Score(v, Top.min_cell) = Score(w, Top.min_cell)

\* the unassigned cells that have no value free of their assigned peers
DeadCells == {c \in Unassigned : FreeValues(cur_val, c) = {}}

\* C16: an invocation entered while some unassigned cell has an empty fresh
\* domain returns failure in that step: no cell is assigned, no value is
\* ordered or tried, nothing is pushed
C16_DeadBranch ==
  [][(pc = "call" /\ DeadCells # {}) =>
       /\ pc' = "ret"
       /\ ~retval'
       /\ cur_val' = cur_val
       /\ stack' = stack
       /\ called' \cap {"least_constr_val", "is_allowed", "set_current"} = {}]_vars

\* a nested invocation has returned failure from a board with a dead cell
\* and other unassigned cells of larger domain
C16_Witness ==
  /\ pc = "ret"
  /\ ~retval
  /\ called = {"board_is_solved", "find_less_poss", "initial_values"}
  /\ Len(stack) >= 2
  /\ DeadCells # {}
  /\ Unassigned \ DeadCells # {}

\* C17: every value the loop takes from the ordered list is allowed: no
\* peer of the selected cell holds it at that moment
C17_CheckRedundant ==
  (pc = "loop" /\ Top.pos <= Len(Top.ordered_values)) =>
    /\ \A d \in PeersOf[Top.min_cell] : cur_val[d] # Top.ordered_values[Top.pos]
    /\ IsAllowed(Top.min_cell, Top.ordered_values[Top.pos], cur_val, neighbors)

\* the recursive call for an earlier value failed and a later value is next
C17_Witness ==
  /\ pc = "loop"
  /\ called = {}
  /\ Top.pos >= 2
  /\ Top.pos <= Len(Top.ordered_values)
  /\ cur_val[Top.min_cell] # 0

\* C18: no clue is on the board before find_neighbors has run for all 81
\* cells
C18_GraphBeforeClues ==
  (pc = "main" /\ k < N * N) => \A c \in Cells : cur_val[c] = 0

\* C19: during the search a non-clue cell that holds a value differs from
\* each of its peers; two peers with the same value are both clues
C19_PartialConsistency ==
  InSearch =>
    /\ \A c \in SearchAssigned : \A d \in PeersOf[c] : cur_val[d] # cur_val[c]
    /\ \A c \in Cells : \A d \in PeersOf[c] :
         (cur_val[c] # 0 /\ cur_val[c] = cur_val[d]) => (c \in ClueCells /\ d \in ClueCells)

\* the search has assigned cells on a board whose clues conflict
C19_Witness ==
  /\ pc = "call"
  /\ ~CluesConsistent
  /\ Cardinality(SearchAssigned) >= 5

\* C20: when least_constr_val is called, the stored domain of every
\* unassigned cell is 1..9 minus the values its peers hold
C20_DomainFreshness ==
  (pc = "loop" /\ "least_constr_val" \in called) =>
    \A c \in Unassigned :
       /\ Range(values[c]) = FreeValues(cur_val, c)
       /\ Len(values[c]) = FreshSize(c)

\* least_constr_val has ordered three or more values in a nested invocation
\* that was entered after an undo
C20_Witness ==
  /\ pc = "loop"
  /\ "least_constr_val" \in called
  /\ Len(stack) >= 2
  /\ stack[Len(stack) - 1].pos >= 2
  /\ \E c \in Unassigned \ {Top.min_cell} : Len(values[c]) \in 1 .. 8

====
